---- MODULE Spec2Model ----
(***************************************************************************)
(* Books-Library backend: the GraphQL resolvers of the three iterations of *)
(* the server kept in the repository.                                      *)
(*                                                                         *)
(*   part_000      in-memory arrays `authors` / `books`, no authentication *)
(*   index.js      MongoDB collections Author / Book / User, bearer-token  *)
(*                 context, no subscriptions                               *)
(*   resolvers.js  as index.js plus the BOOK_ADDED publish                 *)
(*                                                                         *)
(* One run of the model is one run of one of the three programs (variable  *)
(* `program`, fixed by Init).  A resolver call is one action in Spec; in   *)
(* SpecConc the addBook resolver is cut at its awaits so two calls can     *)
(* interleave at every store operation.                                    *)
(***************************************************************************)
EXTENDS Integers, Sequences, FiniteSets, TLC

VARIABLES program, authors, books, Author, Book, User, pubsub, last, proc

vars == <<program, authors, books, Author, Book, User, pubsub, last, proc>>

(***************************************************************************)
(* Bounds of the model and the inputs the resolvers are called with.       *)
(***************************************************************************)
\* Books a run may add to the store (beyond what the program starts with).
MaxBooks == 2
\* Authors addAuthor may add in a run of part_000.
MaxAuthors == 1

\* "Emma" is shorter than 5 characters, "Clean Code" is in part_000's array.
Titles == {"Emma", "Clean Code", "Walden"}
\* "Poe" is shorter than 4 characters, "Robert Martin" is in part_000's array.
Names == {"Poe", "Jane Doe", "Robert Martin"}
\* The genre list each title is added with.
GenresOf(t) == IF t = "Clean Code" THEN <<"crime">> ELSE <<"classic", "crime">>
\* genre arguments of allBooks: the empty string, a stored genre, the sentinel
GenreArgs == {"", "classic", "all genres"}
Years == {1975}
Published == {2020}
Usernames == {"mluukkai"}
Passwords == {"secret", "sekret"}

\* An optional value (undefined / null / an absent key): <<>> or <<v>>.
None == <<>>
Some(v) == <<v>>
Opt(S) == {None} \cup {Some(v) : v \in S}
\* JavaScript truthiness of an optional string: undefined and "" are falsy.
Truthy(o) == o # None /\ o[1] # ""

\* Array.prototype.filter and Model.find are SelectSeq: the matching elements
\* in order.  Array.prototype.find and Model.findOne give the first of them,
\* or undefined / null.
First(m) == IF m = <<>> THEN None ELSE Some(Head(m))
Includes(s, v) == \E i \in DOMAIN s : s[i] = v
Range(s) == {s[i] : i \in DOMAIN s}

\* The record of the call that has just returned: resolver, arguments, the
\* context's currentUser, the error thrown ("" when none) and the value
\* returned (a list; null is <<>>, a single object is a one-element list).
Reply(op, args, user, error, data) ==
    [op |-> op, args |-> args, currentUser |-> user, error |-> error, data |-> data]
NoCall == Reply("", <<>>, None, "", <<>>)

Procs == {1, 2}

\* What newAuthor.save() and book.save() answer: both accept, the first
\* rejects (the second is never reached), the second rejects.
SaveOutcomes == {<<TRUE, TRUE>>, <<FALSE, TRUE>>, <<TRUE, FALSE>>}

BookArgs ==
    {[title |-> t, author |-> n, published |-> y, genres |-> GenresOf(t)] :
        t \in Titles, n \in Names, y \in Published}

(***************************************************************************)
(* part_000: the in-memory server.                                         *)
(***************************************************************************)
authors0 ==
    << [name |-> "Robert Martin", id |-> "afa51ab0-344d-11e9-a414-719c6709cf3e", born |-> Some(1952)],
       [name |-> "Martin Fowler", id |-> "afa5b6f0-344d-11e9-a414-719c6709cf3e", born |-> Some(1963)],
       [name |-> "Fyodor Dostoevsky", id |-> "afa5b6f1-344d-11e9-a414-719c6709cf3e", born |-> Some(1821)],
       [name |-> "Joshua Kerievsky", id |-> "afa5b6f2-344d-11e9-a414-719c6709cf3e", born |-> None],
       [name |-> "Sandi Metz", id |-> "afa5b6f3-344d-11e9-a414-719c6709cf3e", born |-> None] >>

books0 ==
    << [title |-> "Clean Code", published |-> 2008, author |-> "Robert Martin",
        id |-> "afa5b6f4-344d-11e9-a414-719c6709cf3e", genres |-> <<"refactoring">>],
       [title |-> "Agile software development", published |-> 2002, author |-> "Robert Martin",
        id |-> "afa5b6f5-344d-11e9-a414-719c6709cf3e", genres |-> <<"agile", "patterns", "design">>],
       [title |-> "Refactoring, edition 2", published |-> 2018, author |-> "Martin Fowler",
        id |-> "afa5de00-344d-11e9-a414-719c6709cf3e", genres |-> <<"refactoring">>],
       [title |-> "Refactoring to patterns", published |-> 2008, author |-> "Joshua Kerievsky",
        id |-> "afa5de01-344d-11e9-a414-719c6709cf3e", genres |-> <<"refactoring", "patterns">>],
       [title |-> "Practical Object-Oriented Design, An Agile Primer Using Ruby", published |-> 2012,
        author |-> "Sandi Metz", id |-> "afa5de02-344d-11e9-a414-719c6709cf3e",
        genres |-> <<"refactoring", "design">>],
       [title |-> "Crime and punishment", published |-> 1866, author |-> "Fyodor Dostoevsky",
        id |-> "afa5de03-344d-11e9-a414-719c6709cf3e", genres |-> <<"classic", "crime">>],
       [title |-> "The Demon ", published |-> 1872, author |-> "Fyodor Dostoevsky",
        id |-> "afa5de04-344d-11e9-a414-719c6709cf3e", genres |-> <<"classic", "revolution">>] >>

\* The requests addAuthor is called with: a new name with a birth year, and a
\* name part_000's array holds already, born omitted.
AuthorArgs ==
    {[name |-> "Jane Doe", born |-> Some(1975)], [name |-> "Robert Martin", born |-> None]}

\* uuid(): an identifier no record of the two arrays has yet.
uuid(as, bs) == "uuid-" \o ToString(Len(as) + Len(bs) + 1)

\* uniques(): author name -> number of books, for the names that have a book.
uniques(bs) ==
    [n \in {bs[i].author : i \in DOMAIN bs} |->
        Cardinality({i \in DOMAIN bs : bs[i].author = n})]

\* Author.bookCount: uniques()[root.name], undefined for a name with no book.
Mem_bookCountOf(bs, root) ==
    IF root.name \in DOMAIN uniques(bs) THEN Some(uniques(bs)[root.name]) ELSE None

\* Query.allBooks of part_000.
Mem_allBooksOf(bs, args) ==
    LET byAuthor(b) == b.author = args.author[1]
        select_by_author == IF ~Truthy(args.author) THEN bs ELSE SelectSeq(bs, byAuthor)
        byGenre(b) == Includes(b.genres, args.genre[1])
    IN  IF ~Truthy(args.genre) THEN select_by_author
        ELSE SelectSeq(select_by_author, byGenre)

MemUnchanged == UNCHANGED <<program, Author, Book, User, pubsub, proc>>

Mem_bookCount ==
    /\ program = "part_000"
    /\ last' = Reply("bookCount", <<>>, None, "", <<Len(books)>>)
    /\ UNCHANGED <<authors, books>> /\ MemUnchanged

Mem_authorCount ==
    /\ program = "part_000"
    /\ last' = Reply("authorCount", <<>>, None, "",
                     <<Cardinality({books[i].author : i \in DOMAIN books})>>)
    /\ UNCHANGED <<authors, books>> /\ MemUnchanged

Mem_allBooks ==
    /\ program = "part_000"
    /\ \E a \in Opt(Names), g \in Opt(GenreArgs) :
          LET args == [author |-> a, genre |-> g]
          IN  last' = Reply("allBooks", args, None, "", Mem_allBooksOf(books, args))
    /\ UNCHANGED <<authors, books>> /\ MemUnchanged

Mem_allAuthors ==
    /\ program = "part_000"
    /\ last' = Reply("allAuthors", <<>>, None, "", authors)
    /\ UNCHANGED <<authors, books>> /\ MemUnchanged

\* The field resolver Author.bookCount, on an Author the server returned.
Mem_Author_bookCount ==
    /\ program = "part_000"
    /\ \E i \in DOMAIN authors :
          last' = Reply("Author.bookCount", authors[i], None, "",
                        Mem_bookCountOf(books, authors[i]))
    /\ UNCHANGED <<authors, books>> /\ MemUnchanged

Mem_addAuthor ==
    /\ program = "part_000"
    /\ Len(authors) < Len(authors0) + MaxAuthors
    /\ \E args \in AuthorArgs :
          LET author == [name |-> args.name, born |-> args.born, id |-> uuid(authors, books)]
          IN  /\ authors' = Append(authors, author)
              /\ last' = Reply("addAuthor", args, None, "", <<author>>)
    /\ UNCHANGED books /\ MemUnchanged

\* The new arrays and the reply of Mutation.addBook of part_000.
Mem_addBookOf(as, bs, args) ==
    LET sameTitle(p) == p.title = args.title
        sameName(a) == a.name = args.author
        inAuthors == First(SelectSeq(as, sameName))
        author == [name |-> args.author, id |-> uuid(as, bs), born |-> None]
        as1 == IF inAuthors = None THEN Append(as, author) ELSE as
        book == [title |-> args.title, author |-> args.author,
                 published |-> args.published, genres |-> args.genres,
                 id |-> uuid(as1, bs)]
    IN  IF First(SelectSeq(bs, sameTitle)) # None
        THEN [authors |-> as, books |-> bs,
              reply |-> Reply("addBook", args, None, "Title must be unique", <<>>)]
        ELSE [authors |-> as1, books |-> Append(bs, book),
              reply |-> Reply("addBook", args, None, "", <<book>>)]

Mem_addBook ==
    /\ program = "part_000"
    /\ Len(books) < Len(books0) + MaxBooks
    /\ \E args \in BookArgs :
          LET r == Mem_addBookOf(authors, books, args)
          IN  /\ authors' = r.authors
              /\ books' = r.books
              /\ last' = r.reply
    /\ MemUnchanged

\* The new array and the reply of Mutation.editAuthor of part_000.
Mem_editAuthorOf(as, args) ==
    LET sameName(a) == a.name = args.name
        author == First(SelectSeq(as, sameName))
        updatedAuthor == [author[1] EXCEPT !.born = Some(args.setBornTo)]
    IN  IF author = None
        THEN [authors |-> as, reply |-> Reply("editAuthor", args, None, "", <<>>)]
        ELSE [authors |-> [i \in DOMAIN as |->
                              IF as[i].name = args.name THEN updatedAuthor ELSE as[i]],
              reply |-> Reply("editAuthor", args, None, "", <<updatedAuthor>>)]

Mem_editAuthor ==
    /\ program = "part_000"
    /\ \E n \in Names, y \in Years :
          LET r == Mem_editAuthorOf(authors, [name |-> n, setBornTo |-> y])
          IN  /\ authors' = r.authors
              /\ last' = r.reply
    /\ UNCHANGED books /\ MemUnchanged

MemNext ==
    \/ Mem_bookCount
    \/ Mem_authorCount
    \/ Mem_allBooks
    \/ Mem_allAuthors
    \/ Mem_Author_bookCount
    \/ Mem_addAuthor
    \/ Mem_addBook
    \/ Mem_editAuthor

(***************************************************************************)
(* The Entity Store of index.js and resolvers.js: the mongoose models      *)
(* Author, Book and User.  A collection is the list of its documents in    *)
(* insertion order; documents are never deleted.                           *)
(***************************************************************************)
\* The identifiers of the documents of a collection.
Ids(coll) == {coll[i].id : i \in DOMAIN coll}

\* new Model(...) gives the document an _id no other document of the model has.
NewId(inUse) == CHOOSE n \in 1..(Cardinality(inUse) + 1) : n \notin inUse

\* Model.findOne({field: value}): the first document with that value, or null.
Author_findOne(st, name) == LET T(a) == Some(a.name) = name IN First(SelectSeq(st.Author, T))
Book_findOne(st, title) == LET T(b) == b.title = title IN First(SelectSeq(st.Book, T))
User_findOne(st, username) == LET T(u) == u.username = username IN First(SelectSeq(st.User, T))
Author_findById(st, id) == LET T(a) == a.id = id IN First(SelectSeq(st.Author, T))
Book_findById(st, id) == LET T(b) == b.id = id IN First(SelectSeq(st.Book, T))

\* document.save(): insert a new document, or replace the stored one with its _id.
Save(coll, doc) ==
    IF \E i \in DOMAIN coll : coll[i].id = doc.id
    THEN [i \in DOMAIN coll |-> IF coll[i].id = doc.id THEN doc ELSE coll[i]]
    ELSE Append(coll, doc)

\* .populate('author'): the author reference replaced by the Author document.
Populate(st, b) == [b EXCEPT !.author = Author_findById(st, b.author)]
PopulateAll(st, bs) == [i \in DOMAIN bs |-> Populate(st, bs[i])]

Store == [Author |-> Author, Book |-> Book, User |-> User, pubsub |-> pubsub]

(***************************************************************************)
(* Queries of index.js / resolvers.js.                                     *)
(***************************************************************************)
NotAuthenticated == "not authenticated"
TitleInvalid == "Title must be unique and with length min 5 chars, author name min 4 chars"
AuthorFailed == "Adding new author failed or author name is too short"
\* an exception that is not a GraphQLError of the resolvers
TypeError == "TypeError"
ReferenceError == "ReferenceError"
SaveRejected == "book.save() rejected"
AllGenres == "all genres"

\* Variant of allBooksOf that does not know the "all genres" sentinel.
allBooksOf_noSentinel(st, args) ==
    LET author == Author_findOne(st, args.author)
        byBoth(b) == b.author = author[1].id /\ Includes(b.genres, args.genre[1])
        byAuthor(b) == b.author = author[1].id
        byGenre(b) == Includes(b.genres, args.genre[1])
        ok(bs) == Reply("allBooks", args, None, "", PopulateAll(st, bs))
        thrown == Reply("allBooks", args, None, TypeError, <<>>)
    IN  IF Truthy(args.author) /\ Truthy(args.genre)
        THEN (IF author = None THEN thrown ELSE ok(SelectSeq(st.Book, byBoth)))
        ELSE IF Truthy(args.author)
        THEN (IF author = None THEN thrown ELSE ok(SelectSeq(st.Book, byAuthor)))
        ELSE IF Truthy(args.genre)
        THEN ok(SelectSeq(st.Book, byGenre))
        ELSE ok(st.Book)

\* Query.allBooks: the reply for the arguments (author, genre optional).
allBooksOf(st, args) ==
    LET author == Author_findOne(st, args.author)
        byBoth(b) == b.author = author[1].id /\ Includes(b.genres, args.genre[1])
        byAuthor(b) == b.author = author[1].id
        byGenre(b) == Includes(b.genres, args.genre[1])
        ok(bs) == Reply("allBooks", args, None, "", PopulateAll(st, bs))
        \* author.id with author null
        thrown == Reply("allBooks", args, None, TypeError, <<>>)
    IN  IF Truthy(args.author) /\ Truthy(args.genre) /\ args.genre # Some(AllGenres)
        THEN (IF author = None THEN thrown ELSE ok(SelectSeq(st.Book, byBoth)))
        ELSE IF Truthy(args.author)
        THEN (IF author = None THEN thrown ELSE ok(SelectSeq(st.Book, byAuthor)))
        ELSE IF Truthy(args.genre) /\ args.genre # Some(AllGenres)
        THEN ok(SelectSeq(st.Book, byGenre))
        ELSE IF args.genre = Some(AllGenres)
        THEN ok(st.Book)
        ELSE ok(st.Book)

\* Author.bookCount: the Author re-read by name, then its Books counted.
bookCountOf(st, root) ==
    LET author == Author_findOne(st, Some(root.name))
        byAuthor(b) == b.author = author[1].id
    IN  IF author = None
        THEN Reply("Author.bookCount", root, None, TypeError, <<>>)
        ELSE Reply("Author.bookCount", root, None, "", <<Len(SelectSeq(st.Book, byAuthor))>>)

Mongo == program \in {"index", "resolvers"}
QueryUnchanged == UNCHANGED <<program, authors, books, Author, Book, User, pubsub, proc>>
\* context.currentUser: the User the bearer token names (User.findById), if any.
CurrentUsers == Opt(Range(User))

bookCount ==
    /\ Mongo
    /\ last' = Reply("bookCount", <<>>, None, "", <<Len(Book)>>)
    /\ QueryUnchanged

authorCount ==
    /\ Mongo
    /\ last' = Reply("authorCount", <<>>, None, "", <<Len(Author)>>)
    /\ QueryUnchanged

allBooks ==
    /\ Mongo
    /\ \E a \in Opt(Names), g \in Opt(GenreArgs) :
          last' = allBooksOf(Store, [author |-> a, genre |-> g])
    /\ QueryUnchanged

allAuthors ==
    /\ Mongo
    /\ last' = Reply("allAuthors", <<>>, None, "", Author)
    /\ QueryUnchanged

me ==
    /\ Mongo
    /\ \E u \in CurrentUsers : last' = Reply("me", <<>>, u, "", u)
    /\ QueryUnchanged

Author_bookCount ==
    /\ Mongo
    /\ \E i \in DOMAIN Author : last' = bookCountOf(Store, Author[i])
    /\ QueryUnchanged

(***************************************************************************)
(* Mutations of index.js / resolvers.js.                                   *)
(***************************************************************************)
\* Mutation.createUser; saved tells whether the store accepts the document.
createUserOf(st, args, saved) ==
    LET user == [id |-> NewId(Ids(st.User)), username |-> args.username,
                 favoriteGenre |-> args.favoriteGenre]
        userExist == User_findOne(st, args.username)
    IN  IF userExist # None
        THEN [st |-> st, reply |-> Reply("createUser", args, None, "The user already exist", <<>>)]
        ELSE IF ~saved
        THEN [st |-> st, reply |-> Reply("createUser", args, None, "Creating the user failed", <<>>)]
        ELSE [st |-> [st EXCEPT !.User = Save(st.User, user)],
              reply |-> Reply("createUser", args, None, "", <<user>>)]

\* Mutation.login: the token signs {username, id}.
loginOf(st, args) ==
    LET user == User_findOne(st, args.username)
    IN  IF user = None \/ args.password # "secret"
        THEN Reply("login", args, None, "wrong credentials", <<>>)
        ELSE Reply("login", args, None, "",
                   <<[value |-> [username |-> user[1].username, id |-> user[1].id]]>>)

\* Mutation.editAuthor of resolvers.js.
Resolvers_editAuthorOf(st, args, currentUser) ==
    LET author == Author_findOne(st, Some(args.name))
        edited == [author[1] EXCEPT !.born = Some(args.born)]
    IN  IF currentUser = None
        THEN [st |-> st, reply |-> Reply("editAuthor", args, currentUser, NotAuthenticated, <<>>)]
        ELSE IF author = None
        THEN [st |-> st, reply |-> Reply("editAuthor", args, currentUser, "", <<>>)]
        ELSE [st |-> [st EXCEPT !.Author = Save(st.Author, edited)],
              reply |-> Reply("editAuthor", args, currentUser, "", <<edited>>)]

\* Mutation.editAuthor of index.js: the resolver takes (root, args) and reads
\* context.currentUser; no `context` is in scope, so the read throws.
Index_editAuthorOf(st, args, currentUser) ==
    [st |-> st, reply |-> Reply("editAuthor", args, currentUser, ReferenceError, <<>>)]

(***************************************************************************)
(* Mutation.addBook, cut at its awaits.  A frame is the state of one call: *)
(* pc names the store operation the call is waiting for.                   *)
(***************************************************************************)
Idle == [pc |-> "idle", args |-> <<>>, currentUser |-> None,
         newAuthor |-> None, book |-> None, reply |-> NoCall]

Done(f, error, data) ==
    [f EXCEPT !.pc = "done", !.reply = Reply("addBook", f.args, f.currentUser, error, data)]

\* The documents a call has built and not yet saved.
Unsaved(f) == [Author |-> f.newAuthor, Book |-> f.book]

\* Variant of addBook_currentUser without the authentication check.
addBook_currentUser_unchecked(args, currentUser) ==
    [Idle EXCEPT !.args = args, !.currentUser = currentUser, !.pc = "Book.findOne"]

\* The call: the authentication check, then Book.findOne is issued.
addBook_currentUser(args, currentUser) ==
    LET f == [Idle EXCEPT !.args = args, !.currentUser = currentUser]
    IN  IF currentUser = None
        THEN Done(f, NotAuthenticated, <<>>)
        ELSE [f EXCEPT !.pc = "Book.findOne"]

\* Variant of addBook_bookExist that validates the lengths only.
addBook_bookExist_lengthsOnly(st, f) ==
    IF Len(f.args.title) < 5 \/ Len(f.args.author) < 4
    THEN [st |-> st, f |-> Done(f, TitleInvalid, <<>>)]
    ELSE [st |-> st, f |-> [f EXCEPT !.pc = "Author.findOne"]]

\* Variant of addBook_bookExist that does not validate the author name.
addBook_bookExist_titleOnly(st, f) ==
    IF Book_findOne(st, f.args.title) # None \/ Len(f.args.title) < 5
    THEN [st |-> st, f |-> Done(f, TitleInvalid, <<>>)]
    ELSE [st |-> st, f |-> [f EXCEPT !.pc = "Author.findOne"]]

\* bookExist arrives: the validation, then Author.findOne is issued.
addBook_bookExist(st, f) ==
    LET bookExist == Book_findOne(st, f.args.title)
    IN  IF bookExist # None \/ Len(f.args.title) < 5 \/ Len(f.args.author) < 4
        THEN [st |-> st, f |-> Done(f, TitleInvalid, <<>>)]
        ELSE [st |-> st, f |-> [f EXCEPT !.pc = "Author.findOne"]]

\* Variant of addBook_currentAuthor that builds a new Author without looking.
addBook_currentAuthor_alwaysNew(st, f, others) ==
    [st |-> st,
     f |-> [f EXCEPT !.pc = "newAuthor.save",
                     !.newAuthor = Some([id |-> NewId(Ids(st.Author \o others.Author)),
                                         name |-> f.args.author, born |-> None])]]

\* currentAuthor arrives: a new Author is built and its save issued, if absent.
addBook_currentAuthor(st, f, others) ==
    LET currentAuthor == Author_findOne(st, Some(f.args.author))
        newAuthor == [id |-> NewId(Ids(st.Author \o others.Author)), name |-> f.args.author, born |-> None]
    IN  IF currentAuthor = None
        THEN [st |-> st, f |-> [f EXCEPT !.pc = "newAuthor.save", !.newAuthor = Some(newAuthor)]]
        ELSE [st |-> st, f |-> [f EXCEPT !.pc = "savedAuthor"]]

\* newAuthor.save() settles: on rejection the catch block throws.
addBook_newAuthorSave(st, f, saved) ==
    IF saved
    THEN [st |-> [st EXCEPT !.Author = Save(st.Author, f.newAuthor[1])],
          f |-> [f EXCEPT !.pc = "savedAuthor", !.newAuthor = None]]
    ELSE [st |-> st, f |-> Done([f EXCEPT !.newAuthor = None], AuthorFailed, <<>>)]

\* savedAuthor arrives: the Book is built with its id and book.save() issued.
addBook_savedAuthor(st, f, others) ==
    LET savedAuthor == Author_findOne(st, Some(f.args.author))
        book == [id |-> NewId(Ids(st.Book \o others.Book)), title |-> f.args.title, author |-> savedAuthor[1].id,
                 published |-> f.args.published, genres |-> f.args.genres]
    IN  IF savedAuthor = None
        THEN [st |-> st, f |-> Done(f, TypeError, <<>>)]
        ELSE [st |-> st, f |-> [f EXCEPT !.pc = "book.save", !.book = Some(book)]]

\* Variant of addBook_bookSave that looks the title up again before saving.
addBook_bookSave_rechecked(st, f, saved) ==
    IF Book_findOne(st, f.args.title) # None
    THEN [st |-> st, f |-> Done([f EXCEPT !.book = None], TitleInvalid, <<>>)]
    ELSE IF saved
    THEN [st |-> [st EXCEPT !.Book = Save(st.Book, f.book[1])],
          f |-> [f EXCEPT !.pc = "Book.findById"]]
    ELSE [st |-> st, f |-> Done([f EXCEPT !.book = None], SaveRejected, <<>>)]

\* book.save() settles; a rejection leaves the resolver as its error.
addBook_bookSave(st, f, saved) ==
    IF saved
    THEN [st |-> [st EXCEPT !.Book = Save(st.Book, f.book[1])],
          f |-> [f EXCEPT !.pc = "Book.findById"]]
    ELSE [st |-> st, f |-> Done([f EXCEPT !.book = None], SaveRejected, <<>>)]

\* Variant of Resolvers_addBook_newBook that returns without publishing.
Resolvers_addBook_newBook_silent(st, f) ==
    LET found == Book_findById(st, f.book[1].id)
        newBook == IF found = None THEN <<>> ELSE <<Populate(st, found[1])>>
    IN  [st |-> st, f |-> Done([f EXCEPT !.book = None], "", newBook)]

\* newBook arrives, populated; resolvers.js publishes it and returns it.
Resolvers_addBook_newBook(st, f) ==
    LET found == Book_findById(st, f.book[1].id)
        newBook == IF found = None THEN <<>> ELSE <<Populate(st, found[1])>>
    IN  [st |-> [st EXCEPT !.pubsub = Append(st.pubsub, [bookAdded |-> newBook])],
         f |-> Done([f EXCEPT !.book = None], "", newBook)]

\* newBook arrives, populated; index.js returns it.
Index_addBook_newBook(st, f) ==
    LET found == Book_findById(st, f.book[1].id)
        newBook == IF found = None THEN <<>> ELSE <<Populate(st, found[1])>>
    IN  [st |-> st, f |-> Done([f EXCEPT !.book = None], "", newBook)]

\* One step of a call of program prog: the awaited store operation settles
\* and the resolver runs to its next await.  others: the documents other
\* calls have built and not yet saved.
addBook_step(prog, st, f, saved, others) ==
    CASE f.pc = "Book.findOne" -> addBook_bookExist(st, f)
      [] f.pc = "Author.findOne" -> addBook_currentAuthor(st, f, others)
      [] f.pc = "newAuthor.save" -> addBook_newAuthorSave(st, f, saved)
      [] f.pc = "savedAuthor" -> addBook_savedAuthor(st, f, others)
      [] f.pc = "book.save" -> addBook_bookSave(st, f, saved)
      [] f.pc = "Book.findById" ->
            IF prog = "resolvers" THEN Resolvers_addBook_newBook(st, f)
            ELSE Index_addBook_newBook(st, f)
      [] OTHER -> [st |-> st, f |-> f]

\* A call run from its first await to its return with no other call between
\* its steps; authorSaved and bookSaved: what the two saves answer.
RECURSIVE addBook_run(_, _, _, _, _)
addBook_run(prog, st, f, authorSaved, bookSaved) ==
    IF f.pc = "done" THEN [st |-> st, f |-> f]
    ELSE LET r == addBook_step(prog, st, f,
                               IF f.pc = "newAuthor.save" THEN authorSaved ELSE bookSaved,
                               [Author |-> <<>>, Book |-> <<>>])
         IN  addBook_run(prog, r.st, r.f, authorSaved, bookSaved)

addBookOf(prog, st, args, currentUser, authorSaved, bookSaved) ==
    addBook_run(prog, st, addBook_currentUser(args, currentUser), authorSaved, bookSaved)

SetStore(st) ==
    /\ Author' = st.Author
    /\ Book' = st.Book
    /\ User' = st.User
    /\ pubsub' = st.pubsub

createUser ==
    /\ Mongo
    /\ \E n \in Usernames, saved \in BOOLEAN :
          LET r == createUserOf(Store, [username |-> n, favoriteGenre |-> "crime"], saved)
          IN  SetStore(r.st) /\ last' = r.reply
    /\ UNCHANGED <<program, authors, books, proc>>

login ==
    /\ Mongo
    /\ \E n \in Usernames, pw \in Passwords :
          last' = loginOf(Store, [username |-> n, password |-> pw])
    /\ QueryUnchanged

addBook ==
    /\ Mongo
    /\ \E args \in BookArgs, u \in CurrentUsers, saves \in SaveOutcomes :
          LET r == addBookOf(program, Store, args, u, saves[1], saves[2])
          IN  /\ Len(r.st.Book) <= MaxBooks
              /\ SetStore(r.st)
              /\ last' = r.f.reply
    /\ UNCHANGED <<program, authors, books, proc>>

editAuthor ==
    /\ Mongo
    /\ \E n \in Names, y \in Years, u \in CurrentUsers :
          LET args == [name |-> n, born |-> y]
              r == IF program = "resolvers" THEN Resolvers_editAuthorOf(Store, args, u)
                   ELSE Index_editAuthorOf(Store, args, u)
          IN  SetStore(r.st) /\ last' = r.reply
    /\ UNCHANGED <<program, authors, books, proc>>

MongoNext ==
    \/ bookCount
    \/ authorCount
    \/ allBooks
    \/ allAuthors
    \/ me
    \/ Author_bookCount
    \/ createUser
    \/ login
    \/ addBook
    \/ editAuthor

Init ==
    /\ program \in {"part_000", "index", "resolvers"}
    /\ authors = IF program = "part_000" THEN authors0 ELSE <<>>
    /\ books = IF program = "part_000" THEN books0 ELSE <<>>
    /\ Author = <<>>
    /\ Book = <<>>
    /\ User = <<>>
    /\ pubsub = <<>>
    /\ last = NoCall
    /\ proc = [p \in Procs |-> Idle]

Next == MemNext \/ MongoNext

\* Every resolver call runs alone, from its request to its reply.
Spec == Init /\ [][Next]_vars

(***************************************************************************)
(* Overlapping addBook calls: each of two requests is at one of the awaits *)
(* of the resolver, and the store serves one operation at a time.          *)
(***************************************************************************)
\* The requests the overlapping calls are made with.
ConcArgs ==
    {[title |-> "Walden", author |-> n, published |-> y, genres |-> GenresOf("Walden")] :
        n \in {"Jane Doe", "Robert Martin"}, y \in Published}

InFlight == {p \in Procs : proc[p].pc # "idle"}

\* The unsaved documents of the calls other than p.
RECURSIVE UnsavedOf(_)
UnsavedOf(ps) ==
    IF ps = {} THEN [Author |-> <<>>, Book |-> <<>>]
    ELSE LET q == CHOOSE q \in ps : TRUE
             rest == UnsavedOf(ps \ {q})
         IN  [Author |-> Unsaved(proc[q]).Author \o rest.Author,
              Book |-> Unsaved(proc[q]).Book \o rest.Book]

\* A request arrives: the resolver runs to its first await (or throws).
Conc_addBook(p) ==
    /\ Mongo
    /\ proc[p].pc = "idle"
    /\ Len(Book) + Cardinality(InFlight) < MaxBooks
    /\ \E args \in ConcArgs, u \in CurrentUsers :
          LET f == addBook_currentUser(args, u)
          IN  IF f.pc = "done"
              THEN last' = f.reply /\ UNCHANGED proc
              ELSE proc' = [proc EXCEPT ![p] = f] /\ UNCHANGED last
    /\ UNCHANGED <<program, authors, books, Author, Book, User, pubsub>>

\* The store operation call p awaits settles and p runs to its next await or
\* to its return.
Resume(p, saved) ==
    /\ LET r == addBook_step(program, Store, proc[p], saved, UnsavedOf(Procs \ {p}))
       IN  /\ SetStore(r.st)
           /\ IF r.f.pc = "done"
              THEN last' = r.f.reply /\ proc' = [proc EXCEPT ![p] = Idle]
              ELSE proc' = [proc EXCEPT ![p] = r.f] /\ UNCHANGED last
    /\ UNCHANGED <<program, authors, books>>

Conc_bookExist(p) ==
    /\ proc[p].pc = "Book.findOne"
    /\ Resume(p, TRUE)

Conc_currentAuthor(p) ==
    /\ proc[p].pc = "Author.findOne"
    /\ Resume(p, TRUE)

Conc_newAuthorSave(p) ==
    /\ proc[p].pc = "newAuthor.save"
    /\ \E saved \in BOOLEAN : Resume(p, saved)

Conc_savedAuthor(p) ==
    /\ proc[p].pc = "savedAuthor"
    /\ Resume(p, TRUE)

Conc_bookSave(p) ==
    /\ proc[p].pc = "book.save"
    /\ \E saved \in BOOLEAN : Resume(p, saved)

Conc_newBook(p) ==
    /\ proc[p].pc = "Book.findById"
    /\ Resume(p, TRUE)

\* createUser, between the addBook calls.
Conc_createUser ==
    /\ InFlight = {}
    /\ createUser

InitConc ==
    /\ program \in {"index", "resolvers"}
    /\ authors = <<>>
    /\ books = <<>>
    /\ Author = <<>>
    /\ Book = <<>>
    /\ User = <<>>
    /\ pubsub = <<>>
    /\ last = NoCall
    /\ proc = [p \in Procs |-> Idle]

NextConc ==
    \/ Conc_createUser
    \/ \E p \in Procs : Conc_addBook(p)
    \/ \E p \in Procs : Conc_bookExist(p)
    \/ \E p \in Procs : Conc_currentAuthor(p)
    \/ \E p \in Procs : Conc_newAuthorSave(p)
    \/ \E p \in Procs : Conc_savedAuthor(p)
    \/ \E p \in Procs : Conc_bookSave(p)
    \/ \E p \in Procs : Conc_newBook(p)

SpecConc == InitConc /\ [][NextConc]_vars

(***************************************************************************)
(* The properties.  In Spec every step is one resolver call and `last'` is *)
(* its record, so a property of a call is a property of the step that sets *)
(* `last'`: the unprimed variables are the store before the call.          *)
(***************************************************************************)
MongoStore == <<Author, Book, User, pubsub>>
Authenticated(r) == r.currentUser # None
Titled(coll, t) == {i \in DOMAIN coll : coll[i].title = t}
Named(coll, n) == {i \in DOMAIN coll : coll[i].name = n}

\* C1: in index.js and resolvers.js an addBook call whose context has no
\* current user fails with 'not authenticated', leaves the Author, Book and
\* User collections as they were and publishes nothing.
C1_UnauthenticatedAddBook ==
    [][(Mongo /\ last'.op = "addBook" /\ ~Authenticated(last'))
          => (last'.error = NotAuthenticated /\ last'.data = <<>> /\ UNCHANGED MongoStore)]_vars

\* C1 witness: an unauthenticated addBook has been refused on a store that
\* holds a Book and a User, for a valid title that is not stored yet.
C1_Witness ==
    /\ program = "resolvers"
    /\ last.op = "addBook" /\ ~Authenticated(last) /\ last.error = NotAuthenticated
    /\ Len(Book) = 1 /\ Len(User) = 1
    /\ last.args.title = "Walden" /\ last.args.author = "Jane Doe"
    /\ Titled(Book, last.args.title) = {}

UniqueTitles ==
    /\ \A i, j \in DOMAIN Book : Book[i].title = Book[j].title => i = j
    /\ \A i, j \in DOMAIN books : books[i].title = books[j].title => i = j

\* C2: with non-overlapping calls no two stored Books have the same title, in
\* the Book collection and in part_000's array alike; an addBook (authenticated,
\* where the program authenticates) whose title is the title of a stored Book
\* fails with the validation error and leaves the number of Books unchanged.
C2_UniqueTitles ==
    /\ UniqueTitles
    /\ [][/\ UniqueTitles'
          /\ (Mongo /\ last'.op = "addBook" /\ Authenticated(last')
                    /\ Titled(Book, last'.args.title) # {})
                => (last'.error = TitleInvalid /\ Len(Book') = Len(Book))
          /\ (program = "part_000" /\ last'.op = "addBook"
                    /\ Titled(books, last'.args.title) # {})
                => (last'.error = "Title must be unique" /\ Len(books') = Len(books))]_vars

\* C2 witness: an authenticated addBook with a long enough title and author
\* name has been refused because the title is stored already.
C2_Witness ==
    /\ program = "resolvers"
    /\ last.op = "addBook" /\ Authenticated(last) /\ last.error = TitleInvalid
    /\ Len(last.args.title) >= 5 /\ Len(last.args.author) >= 4
    /\ Cardinality(Titled(Book, last.args.title)) = 1
    /\ Len(Book) = 2

AuthorsResolve ==
    /\ \A i \in DOMAIN Book : \E j \in DOMAIN Author : Author[j].id = Book[i].author
    /\ \A i \in DOMAIN books : \E j \in DOMAIN authors : authors[j].name = books[i].author

\* A successful addBook of index.js / resolvers.js, as a step.
AddedBook ==
    /\ Mongo /\ last'.op = "addBook" /\ last'.error = ""

ResolvedIn(as, b) ==
    LET S == {as[j] : j \in {k \in DOMAIN as : as[k].id = b.author}}
    IN  [b EXCEPT !.author = IF S = {} THEN None ELSE Some(CHOOSE a \in S : TRUE)]

\* What allBooks is to return for the arguments r.args, given the genre
\* arguments that count as "no genre filter": the stored Books of an Author with
\* the given name (when an author is given) that contain the genre (when a
\* genre filter is given), each once, author resolved.
AllBooksAsClaimed(r, unfiltered) ==
    LET a == r.args.author
        g == r.args.genre
        match(b) ==
            /\ a # None => \E j \in Named(Author, a[1]) : Author[j].id = b.author
            /\ g \notin unfiltered => Includes(b.genres, g[1])
        wanted == {i \in DOMAIN Book : match(Book[i])}
    IN  /\ r.error = ""
        /\ Len(r.data) = Cardinality(wanted)
        /\ Range(r.data) = {ResolvedIn(Author, Book[i]) : i \in wanted}

\* allBooks of index.js / resolvers.js was called with no author or with the
\* name of a stored Author.
AllBooksOfKnownAuthor ==
    /\ Mongo /\ last.op = "allBooks"
    /\ last.args.author # None => Named(Author, last.args.author[1]) # {}

C6_UnknownAuthorEmpty ==
    (/\ last.op = "allBooks"
     /\ last.args.author # None
     /\ Named(IF Mongo THEN Author ELSE authors, last.args.author[1]) = {})
        => (last.error = "" /\ last.data = <<>>)

\* What C7 says of an editAuthor call of program prog, as a step.
EditAuthorAsClaimed(prog) ==
    (program = prog /\ last'.op = "editAuthor") =>
        LET hit == Named(Author, last'.args.name)
        IN  IF ~Authenticated(last')
            THEN last'.error = NotAuthenticated /\ UNCHANGED MongoStore
            ELSE IF hit = {}
            THEN last'.error = "" /\ last'.data = <<>> /\ UNCHANGED MongoStore
            ELSE /\ last'.error = ""
                 /\ Author' = [j \in DOMAIN Author |->
                                  IF j \in hit
                                  THEN [Author[j] EXCEPT !.born = Some(last'.args.born)]
                                  ELSE Author[j]]
                 /\ Cardinality(hit) = 1
                 /\ UNCHANGED <<Book, User, pubsub>>

\* C7: editAuthor with a current user returns null without error for a name
\* no Author has and changes nothing; for the name of an Author it sets that
\* Author's born and nothing else; without a current user it fails with
\* 'not authenticated' and changes nothing.
C7_EditAuthor ==
    [][EditAuthorAsClaimed("index") /\ EditAuthorAsClaimed("resolvers")]_vars

\* C7, resolvers.js alone.
C7_EditAuthorOfResolvers == [][EditAuthorAsClaimed("resolvers")]_vars

\* C8: in resolvers.js every publish is made by an addBook that returns
\* successfully and carries the Book that call stored, author resolved; every
\* successful addBook publishes exactly once; so the publishes are as many as
\* the successful addBook calls, and no failing addBook, editAuthor,
\* createUser, login or query publishes.
C8_PublishOnSuccess ==
    /\ pubsub = <<>>
    /\ [][/\ pubsub' # pubsub =>
                /\ program = "resolvers" /\ AddedBook
                /\ pubsub' = Append(pubsub, [bookAdded |-> last'.data])
                /\ Len(last'.data) = 1
                /\ last'.data[1].author # None
                /\ \E i \in DOMAIN Book' :
                      /\ i \notin DOMAIN Book
                      /\ ResolvedIn(Author', Book'[i]) = last'.data[1]
          /\ (program = "resolvers" /\ AddedBook) => Len(pubsub') = Len(pubsub) + 1]_vars

\* C8 witness: two addBook calls have succeeded and two payloads are
\* published, the second the Book the last call returned.
C8_Witness ==
    /\ program = "resolvers"
    /\ last.op = "addBook" /\ last.error = ""
    /\ Len(Book) = 2 /\ Len(pubsub) = 2
    /\ pubsub[2].bookAdded = last.data
    /\ pubsub[1].bookAdded # pubsub[2].bookAdded

PastTitleCheck == {"Author.findOne", "newAuthor.save", "savedAuthor", "book.save", "Book.findById"}

\* C9: with the steps of two addBook calls interleaved, the title is looked
\* up once per call: a call past its title check never fails with the
\* validation error, and its accepted book.save() and newAuthor.save() append
\* their documents whatever has been stored in between.  Hence the state of
\* C9_Witness: two Books with one title and two Authors with one name.
C9_CheckThenAct ==
    [][\A p \in Procs :
          /\ (proc[p].pc \in PastTitleCheck /\ proc'[p].pc = "idle")
                => last'.error # TitleInvalid
          /\ (proc[p].pc = "book.save" /\ proc'[p].pc = "Book.findById")
                => Book' = Append(Book, proc[p].book[1])
          /\ (proc[p].pc = "newAuthor.save" /\ proc'[p].pc = "savedAuthor")
                => Author' = Append(Author, proc[p].newAuthor[1])]_vars

\* C9 witness: both calls passed the title check for one title and found one
\* new author name absent: two Books with the title and two Authors with the
\* name are stored.
C9_Witness ==
    /\ \E i, j \in DOMAIN Book : i # j /\ Book[i].title = Book[j].title
    /\ \E i, j \in DOMAIN Author : i # j /\ Author[i].name = Author[j].name

\* C10: Author.bookCount of a stored Author is the number of stored Books
\* that reference it (by identifier in the Book collection, by name in
\* part_000's array), 0 for an Author with no Book.
C10_BookCount ==
    last.op = "Author.bookCount" =>
        /\ last.error = ""
        /\ last.data =
              << IF Mongo
                 THEN Cardinality({i \in DOMAIN Book : Book[i].author = last.args.id})
                 ELSE Cardinality({i \in DOMAIN books : books[i].author = last.args.name}) >>

\* C10, index.js and resolvers.js alone.
C10_BookCountOfMongo == Mongo => C10_BookCount
====
